---- MODULE Spec2Model ----
(***************************************************************************)
(* Three-way textual merge (eden/scm/edenscm/simplemerge.py).              *)
(*                                                                         *)
(* Byte strings are sequences of one-character strings, token sequences    *)
(* are sequences of byte strings.  Offsets are 0-based as in the source:   *)
(* At(s, i) is s[i] and Slice(s, lo, hi) is s[lo:hi].                      *)
(***************************************************************************)
EXTENDS Integers, Sequences, FiniteSets, TLC

\* ------------------------------------------------------------------ bounds

\* Largest number of lines of base, a and b together that Init draws.
MaxTotalLines == 4

\* Largest buffer (in bytes) the tokenizer specification draws.
MaxBufLen == 4

\* Largest number of lines of basetext, atext and btext together in the
\* specification of find_sync_regions alone.
MaxSyncLines == 3

\* ------------------------------------------------------------ byte strings

NL == "\n"
CR == "\r"
BS == "\\"

Max(x, y) == IF x >= y THEN x ELSE y
Min(x, y) == IF x <= y THEN x ELSE y

At(s, i) == s[i + 1]

Slice(s, lo, hi) ==
    LET l == Max(0, Min(lo, Len(s)))
        h == Max(0, Min(hi, Len(s)))
    IN IF l >= h THEN << >> ELSE SubSeq(s, l + 1, h)

RECURSIVE Join(_)
\* b"".join(tokens)
Join(tokens) ==
    IF tokens = << >> THEN << >> ELSE Head(tokens) \o Join(Tail(tokens))

EndsWith(s, suffix) ==
    /\ Len(s) >= Len(suffix)
    /\ SubSeq(s, Len(s) - Len(suffix) + 1, Len(s)) = suffix

\* An optional value (None or a value) as a record, so that None and b""
\* stay different values.
None == [some |-> FALSE, val |-> << >>]
Some(v) == [some |-> TRUE, val |-> v]
\* Python truthiness of an optional byte string: None and b"" are falsy.
Truthy(o) == o.some /\ o.val # << >>

\* ---------------------------------------------------------------- splitter

RECURSIVE SplitNewlinesFrom(_, _, _, _)
SplitNewlinesFrom(text, i, cur, acc) ==
    IF i > Len(text)
    THEN IF cur = << >> THEN acc ELSE Append(acc, cur)
    ELSE LET c == text[i]
             last == \/ c = NL
                     \/ c = CR /\ ~(i < Len(text) /\ text[i + 1] = NL)
         IN IF last
            THEN SplitNewlinesFrom(text, i + 1, << >>, Append(acc, Append(cur, c)))
            ELSE SplitNewlinesFrom(text, i + 1, Append(cur, c), acc)

\* mdiff.splitnewlines: split after each line terminator, which stays
\* attached to its line; the final token may lack a terminator.
SplitNewlines(text) == SplitNewlinesFrom(text, 1, << >>, << >>)

CharClass(c) ==
    IF c = NL THEN "nl"
    ELSE IF c \in {" ", "\t", CR} THEN "space"
    ELSE "word"

RECURSIVE SplitWordsFrom(_, _, _)
SplitWordsFrom(text, i, acc) ==
    IF i > Len(text) THEN acc
    ELSE LET c == text[i]
             n == Len(acc)
             extend == /\ n > 0
                       /\ CharClass(c) # "nl"
                       /\ CharClass(acc[n][1]) = CharClass(c)
         IN IF extend
            THEN SplitWordsFrom(text, i + 1, [acc EXCEPT ![n] = Append(@, c)])
            ELSE SplitWordsFrom(text, i + 1, Append(acc, <<c>>))

\* mdiff.splitwords: maximal runs of whitespace or of non-whitespace, each
\* "\n" a word of its own.
SplitWords(text) == SplitWordsFrom(text, 1, << >>)

RECURSIVE FoldWords(_, _, _, _)
\* The loop of splitwordswithoutemptylines over words[i..]: buf is the list
\* of words being joined, result the tokens appended so far.
FoldWords(words, i, buf, result) ==
    IF i > Len(words)
    THEN IF buf # << >> THEN Append(result, Join(buf)) ELSE result
    ELSE LET word == words[i]
         IN IF word # <<NL>> /\ buf # << >>
            THEN FoldWords(words, i + 1, <<word>>, Append(result, Join(buf)))
            ELSE FoldWords(words, i + 1, Append(buf, word), result)

splitwordswithoutemptylines(text) == FoldWords(SplitWords(text), 1, << >>, << >>)

\* The tokenization Merge3Text.__init__ selects for a word-merge mode.
Split(wm, text) ==
    IF wm = "enforced" THEN splitwordswithoutemptylines(text)
    ELSE SplitNewlines(text)

\* ----------------------------------------------------------------- matcher

RECURSIVE LcsRow(_, _, _, _, _)
\* Row of the suffix table for token xi: acc holds columns j+1 .. Len(y)+1.
LcsRow(xi, y, below, j, acc) ==
    IF j = 0 THEN acc
    ELSE LET v == IF xi = y[j] THEN 1 + below[j + 1]
                  ELSE Max(below[j], acc[1])
         IN LcsRow(xi, y, below, j - 1, <<v>> \o acc)

RECURSIVE LcsRows(_, _, _, _)
\* Rows i .. Len(x)+1 of the table, acc holding rows i+1 .. Len(x)+1.
LcsRows(x, y, i, acc) ==
    IF i = 0 THEN acc
    ELSE LcsRows(x, y, i - 1, <<LcsRow(x[i], y, acc[1], Len(y), <<0>>)>> \o acc)

\* T[i][j]: length of a longest common subsequence of x[i..] and y[j..].
LcsTable(x, y) ==
    LcsRows(x, y, Len(x), <<[j \in 1..(Len(y) + 1) |-> 0]>>)

RECURSIVE LcsAlignments(_, _, _, _, _)
\* Every longest common subsequence of x[i..] and y[j..], as the sequence of
\* its matched pairs <<i', j'>>.
LcsAlignments(x, y, T, i, j) ==
    IF T[i][j] = 0 THEN {<< >>}
    ELSE UNION {
           {<<p>> \o rest : rest \in LcsAlignments(x, y, T, p[1] + 1, p[2] + 1)} :
           p \in {q \in (i..Len(x)) \X (j..Len(y)) :
                    /\ x[q[1]] = y[q[2]]
                    /\ 1 + T[q[1] + 1][q[2] + 1] = T[i][j]} }

RECURSIVE PairsToBlocks(_, _, _)
\* Maximal runs of consecutive matched pairs as blocks (x_off, y_off, len).
PairsToBlocks(pairs, k, acc) ==
    IF k > Len(pairs) THEN acc
    ELSE LET p == pairs[k]
             n == Len(acc)
             run == /\ n > 0
                    /\ acc[n][1] + acc[n][3] = p[1] - 1
                    /\ acc[n][2] + acc[n][3] = p[2] - 1
         IN IF run
            THEN PairsToBlocks(pairs, k + 1, [acc EXCEPT ![n] = <<@[1], @[2], @[3] + 1>>])
            ELSE PairsToBlocks(pairs, k + 1, Append(acc, <<p[1] - 1, p[2] - 1, 1>>))

\* The results a matcher may give for two token sequences: the blocks of a
\* longest common subsequence, ascending, ended by the sentinel (|x|, |y|, 0).
MatchingBlocksOfTokens(x, y) ==
    {Append(PairsToBlocks(al, 1, << >>), <<Len(x), Len(y), 0>>) :
        al \in LcsAlignments(x, y, LcsTable(x, y), 1, 1)}

\* mdiff.get_matching_blocks(text1, text2): the matcher works on the lines of
\* the two buffers.
get_matching_blocks(text1, text2) ==
    MatchingBlocksOfTokens(SplitNewlines(text1), SplitNewlines(text2))

\* A run of equal tokens: x[xo:xo+n] == y[yo:yo+n], n >= 1, starting at or
\* after (i, j).
MatchingRuns(x, y, i, j) ==
    {r \in (i..(Len(x) - 1)) \X (j..(Len(y) - 1)) \X (1..Min(Len(x), Len(y))) :
        /\ r[1] + r[3] <= Len(x)
        /\ r[2] + r[3] <= Len(y)
        /\ SubSeq(x, r[1] + 1, r[1] + r[3]) = SubSeq(y, r[2] + 1, r[2] + r[3])}

RECURSIVE ContractLists(_, _, _, _)
\* Every list of blocks from (i, j) on in which each block is a run of equal
\* tokens and the blocks ascend without overlap on both sides.
ContractLists(x, y, i, j) ==
    {<< >>} \cup
    UNION { {<<r>> \o rest : rest \in ContractLists(x, y, r[1] + r[3], r[2] + r[3])} :
            r \in MatchingRuns(x, y, i, j) }

\* Everything the matching-blocks contract alone allows a matcher to answer:
\* such a list ended by the sentinel (|x|, |y|, 0).
any_matching_blocks(text1, text2) ==
    LET x == SplitNewlines(text1)
        y == SplitNewlines(text2)
    IN {Append(l, <<Len(x), Len(y), 0>>) : l \in ContractLists(x, y, 0, 0)}

\* ------------------------------------------------------- range primitives

\* intersect also answering an empty range where the two ranges touch.
intersect_allows_empty(ra, rb) ==
    LET sa == Max(ra[1], rb[1])
        sb == Min(ra[2], rb[2])
    IN IF sa <= sb THEN Some(<<sa, sb>>) ELSE None

\* intersect(ra, rb): the range where two ranges intersect, or None.
intersect(ra, rb) ==
    LET sa == Max(ra[1], rb[1])
        sb == Min(ra[2], rb[2])
    IN IF sa < sb THEN Some(<<sa, sb>>) ELSE None

\* The two assertions at the head of intersect.
intersect_pre(ra, rb) == ra[1] <= ra[2] /\ rb[1] <= rb[2]

\* compare_range without its loop: ranges of equal length compare equal.
compare_range_lengths_only(a, astart, aend, b, bstart, bend) ==
    (aend - astart) = (bend - bstart)

\* compare_range: a[astart:aend] == b[bstart:bend], without slicing.
compare_range(a, astart, aend, b, bstart, bend) ==
    IF (aend - astart) # (bend - bstart) THEN FALSE
    ELSE \A k \in 0..(aend - astart - 1) : At(a, astart + k) = At(b, bstart + k)

\* ------------------------------------------------------ sync-region finder

\* escape(word), concat(words) of find_sync_regions: each token becomes one
\* line of a synthetic buffer.
RECURSIVE escape_chars(_)
escape_chars(word) ==
    IF word = << >> THEN << >>
    ELSE LET c == Head(word)
             e == IF c = BS THEN <<BS, BS>>
                  ELSE IF c = NL THEN <<BS, "n">>
                  ELSE <<c>>
         IN e \o escape_chars(Tail(word))

escape(word) == Append(escape_chars(word), NL)

concat(words) == Join([k \in 1..Len(words) |-> escape(words[k])])

\* The buffer find_sync_regions hands to the matcher for one side.
matcher_text(wm, text, tokens) ==
    IF wm = "enforced" THEN concat(tokens) ELSE text

\* sync_region without the offset of the intersection into each block.
sync_region_block_start(abase, amatch, bbase, bmatch, intbase, intend) ==
    <<intbase, intend, amatch, amatch + (intend - intbase),
      bmatch, bmatch + (intend - intbase)>>

\* The sync region find_sync_regions appends for the intersection
\* (intbase, intend) of the blocks (abase, amatch, _) and (bbase, bmatch, _).
sync_region(abase, amatch, bbase, bmatch, intbase, intend) ==
    LET intlen == intend - intbase
        asub == amatch + (intbase - abase)
        bsub == bmatch + (intbase - bbase)
        aend == asub + intlen
        bend == bsub + intlen
    IN <<intbase, intend, asub, aend, bsub, bend>>

\* One iteration of the while loop of find_sync_regions.  st holds ia, ib,
\* sl and err ("" or the exception raised).
find_sync_body(base, a, b, amatches, bmatches, st) ==
    LET am == At(amatches, st.ia)
        bm == At(bmatches, st.ib)
        abase == am[1]
        amatch == am[2]
        alen == am[3]
        bbase == bm[1]
        bmatch == bm[2]
        blen == bm[3]
        ra == <<abase, abase + alen>>
        rb == <<bbase, bbase + blen>>
        i == intersect(ra, rb)
        intbase == i.val[1]
        intend == i.val[2]
        intlen == intend - intbase
        found == sync_region(abase, amatch, bbase, bmatch, intbase, intend)
        asub == found[3]
        aend == found[4]
        bsub == found[5]
        bend == found[6]
        asserts == /\ intlen <= alen
                   /\ intlen <= blen
                   /\ abase <= intbase
                   /\ bbase <= intbase
                   /\ Slice(base, intbase, intend) = Slice(a, asub, aend)
                   /\ Slice(base, intbase, intend) = Slice(b, bsub, bend)
        advance_a == (abase + alen) < (bbase + blen)
    IN IF ~intersect_pre(ra, rb) \/ (i.some /\ ~asserts)
       THEN [st EXCEPT !.err = "AssertionError"]
       ELSE [ia |-> IF advance_a THEN st.ia + 1 ELSE st.ia,
             ib |-> IF advance_a THEN st.ib ELSE st.ib + 1,
             sl |-> IF i.some THEN Append(st.sl, found) ELSE st.sl,
             err |-> ""]

\* The zero-length sync region appended after the loop.
final_sync(base, a, b) ==
    <<Len(base), Len(base), Len(a), Len(a), Len(b), Len(b)>>

RECURSIVE find_sync_loop(_, _, _, _, _, _)
find_sync_loop(base, a, b, amatches, bmatches, st) ==
    IF st.err # "" THEN st
    ELSE IF st.ia < Len(amatches) /\ st.ib < Len(bmatches)
    THEN find_sync_loop(base, a, b, amatches, bmatches,
                        find_sync_body(base, a, b, amatches, bmatches, st))
    ELSE [st EXCEPT !.sl = Append(@, final_sync(base, a, b))]

\* find_sync_regions as a whole: [sl, err].
find_sync_regions(base, a, b, amatches, bmatches) ==
    find_sync_loop(base, a, b, amatches, bmatches,
                   [ia |-> 0, ib |-> 0, sl |-> << >>, err |-> ""])

\* ------------------------------------------------------- region classifier

\* gap_tag taking a where only b changed.
gap_tag_keeps_a(equal_a, equal_b, same) ==
    IF same THEN "same"
    ELSE IF equal_a /\ ~equal_b THEN "a"
    ELSE IF equal_b /\ ~equal_a THEN "a"
    ELSE IF ~equal_a /\ ~equal_b THEN "conflict"
    ELSE "AssertionError"

\* gap_tag taking b where only a changed.
gap_tag_keeps_b(equal_a, equal_b, same) ==
    IF same THEN "same"
    ELSE IF equal_a /\ ~equal_b THEN "b"
    ELSE IF equal_b /\ ~equal_a THEN "b"
    ELSE IF ~equal_a /\ ~equal_b THEN "conflict"
    ELSE "AssertionError"

\* gap_tag testing same after the one-sided and conflict cases.
gap_tag_same_last(equal_a, equal_b, same) ==
    IF equal_a /\ ~equal_b THEN "b"
    ELSE IF equal_b /\ ~equal_a THEN "a"
    ELSE IF ~equal_a /\ ~equal_b THEN "conflict"
    ELSE IF same THEN "same"
    ELSE "AssertionError"

\* The tag chosen for a gap (the if/elif chain of merge_regions).
gap_tag(equal_a, equal_b, same) ==
    IF same THEN "same"
    ELSE IF equal_a /\ ~equal_b THEN "b"
    ELSE IF equal_b /\ ~equal_a THEN "a"
    ELSE IF ~equal_a /\ ~equal_b THEN "conflict"
    ELSE "AssertionError"

\* merge_regions_body leaving ia at the start of the sync region it has just
\* yielded as unchanged.
merge_regions_body_stale_ia(base, a, b, region, st) ==
    LET zmatch == region[1]
        zend == region[2]
        amatch == region[3]
        aend == region[4]
        bmatch == region[5]
        bend == region[6]
        matchlen == zend - zmatch
        len_a == amatch - st.ia
        len_b == bmatch - st.ib
        len_base == zmatch - st.iz
        asserts == /\ matchlen >= 0
                   /\ matchlen = (aend - amatch)
                   /\ matchlen = (bend - bmatch)
                   /\ len_a >= 0
                   /\ len_b >= 0
                   /\ len_base >= 0
        gap == len_a # 0 \/ len_b # 0
        equal_a == compare_range(a, st.ia, amatch, base, st.iz, zmatch)
        equal_b == compare_range(b, st.ib, bmatch, base, st.iz, zmatch)
        same == compare_range(a, st.ia, amatch, b, st.ib, bmatch)
        tag == gap_tag(equal_a, equal_b, same)
        tagged == IF tag = "same" THEN <<"same", st.ia, amatch>>
                  ELSE IF tag = "b" THEN <<"b", st.ib, bmatch>>
                  ELSE IF tag = "a" THEN <<"a", st.ia, amatch>>
                  ELSE <<"conflict", st.iz, zmatch, st.ia, amatch, st.ib, bmatch>>
        ia1 == IF gap THEN amatch ELSE st.ia
        ib1 == IF gap THEN bmatch ELSE st.ib
        r1 == IF gap THEN Append(st.regions, tagged) ELSE st.regions
        asserts2 == ia1 = amatch /\ ib1 = bmatch
    IN IF ~asserts \/ (gap /\ tag = "AssertionError") \/ (matchlen > 0 /\ ~asserts2)
       THEN [st EXCEPT !.err = "AssertionError"]
       ELSE IF matchlen > 0
       THEN [iz |-> zend, ia |-> amatch, ib |-> bend,
             regions |-> Append(r1, <<"unchanged", zmatch, zend>>), err |-> ""]
       ELSE [iz |-> zmatch, ia |-> ia1, ib |-> ib1, regions |-> r1, err |-> ""]

\* The body of the for loop of merge_regions for one sync region.  st holds
\* iz, ia, ib, the regions yielded so far and err.
merge_regions_body(base, a, b, region, st) ==
    LET zmatch == region[1]
        zend == region[2]
        amatch == region[3]
        aend == region[4]
        bmatch == region[5]
        bend == region[6]
        matchlen == zend - zmatch
        len_a == amatch - st.ia
        len_b == bmatch - st.ib
        len_base == zmatch - st.iz
        asserts == /\ matchlen >= 0
                   /\ matchlen = (aend - amatch)
                   /\ matchlen = (bend - bmatch)
                   /\ len_a >= 0
                   /\ len_b >= 0
                   /\ len_base >= 0
        gap == len_a # 0 \/ len_b # 0
        equal_a == compare_range(a, st.ia, amatch, base, st.iz, zmatch)
        equal_b == compare_range(b, st.ib, bmatch, base, st.iz, zmatch)
        same == compare_range(a, st.ia, amatch, b, st.ib, bmatch)
        tag == gap_tag(equal_a, equal_b, same)
        tagged == IF tag = "same" THEN <<"same", st.ia, amatch>>
                  ELSE IF tag = "b" THEN <<"b", st.ib, bmatch>>
                  ELSE IF tag = "a" THEN <<"a", st.ia, amatch>>
                  ELSE <<"conflict", st.iz, zmatch, st.ia, amatch, st.ib, bmatch>>
        ia1 == IF gap THEN amatch ELSE st.ia
        ib1 == IF gap THEN bmatch ELSE st.ib
        r1 == IF gap THEN Append(st.regions, tagged) ELSE st.regions
        asserts2 == ia1 = amatch /\ ib1 = bmatch
    IN IF ~asserts \/ (gap /\ tag = "AssertionError") \/ (matchlen > 0 /\ ~asserts2)
       THEN [st EXCEPT !.err = "AssertionError"]
       ELSE IF matchlen > 0
       THEN [iz |-> zend, ia |-> aend, ib |-> bend,
             regions |-> Append(r1, <<"unchanged", zmatch, zend>>), err |-> ""]
       ELSE [iz |-> zmatch, ia |-> ia1, ib |-> ib1, regions |-> r1, err |-> ""]

RECURSIVE merge_regions_loop(_, _, _, _, _, _)
merge_regions_loop(base, a, b, sl, k, st) ==
    IF st.err # "" \/ k > Len(sl) THEN st
    ELSE merge_regions_loop(base, a, b, sl, k + 1,
                            merge_regions_body(base, a, b, sl[k], st))

\* merge_regions as a whole: [regions, err].
merge_regions(base, a, b, amatches, bmatches) ==
    LET found == find_sync_regions(base, a, b, amatches, bmatches)
        st0 == [iz |-> 0, ia |-> 0, ib |-> 0, regions |-> << >>, err |-> found.err]
    IN merge_regions_loop(base, a, b, found.sl, 1, st0)

\* --------------------------------------------------------------- minimizer

RECURSIVE startmatches(_, _, _, _, _, _, _)
\* The first while loop of minimize, from ii.
startmatches(a, b, a1, b1, alen, blen, ii) ==
    IF ii < alen /\ ii < blen /\ At(a, a1 + ii) = At(b, b1 + ii)
    THEN startmatches(a, b, a1, b1, alen, blen, ii + 1)
    ELSE ii

RECURSIVE endmatches(_, _, _, _, _, _, _)
\* The second while loop of minimize, from ii.
endmatches(a, b, a2, b2, alen, blen, ii) ==
    IF ii < alen /\ ii < blen /\ At(a, a2 - ii - 1) = At(b, b2 - ii - 1)
    THEN endmatches(a, b, a2, b2, alen, blen, ii + 1)
    ELSE ii

\* minimize_region without the region of the matching end.
minimize_region_drops_end(a, b, region) ==
    IF region[1] # "conflict" THEN <<region>>
    ELSE LET a1 == region[4]
             a2 == region[5]
             b1 == region[6]
             b2 == region[7]
             sm == startmatches(a, b, a1, b1, a2 - a1, b2 - b1, 0)
             em == endmatches(a, b, a2, b2, a2 - a1, b2 - b1, 0)
         IN (IF sm > 0 THEN <<<<"same", a1, a1 + sm>>>> ELSE << >>)
            \o <<<<"conflict", region[2], region[3], a1 + sm, a2 - em, b1 + sm, b2 - em>>>>

\* The regions minimize yields for one region of its input.
minimize_region(a, b, region) ==
    IF region[1] # "conflict" THEN <<region>>
    ELSE LET z1 == region[2]
             z2 == region[3]
             a1 == region[4]
             a2 == region[5]
             b1 == region[6]
             b2 == region[7]
             alen == a2 - a1
             blen == b2 - b1
             sm == startmatches(a, b, a1, b1, alen, blen, 0)
             em == endmatches(a, b, a2, b2, alen, blen, 0)
         IN (IF sm > 0 THEN <<<<"same", a1, a1 + sm>>>> ELSE << >>)
            \o <<<<"conflict", z1, z2, a1 + sm, a2 - em, b1 + sm, b2 - em>>>>
            \o (IF em > 0 THEN <<<<"same", a2 - em, a2>>>> ELSE << >>)

RECURSIVE minimize(_, _, _)
minimize(a, b, regions) ==
    IF regions = << >> THEN << >>
    ELSE minimize_region(a, b, Head(regions)) \o minimize(a, b, Tail(regions))

\* ---------------------------------------------------------------- renderer

\* The chunks merge_lines yields are kept with their origin: a token of base,
\* a or b, a marker line, or a line of a word-merge result.
Chunk(kind, data) == [kind |-> kind, data |-> data]

\* for i in range(lo, hi): yield tokens[i]
TokenChunks(kind, tokens, lo, hi) ==
    [k \in 1..(hi - lo) |-> Chunk(kind, At(tokens, lo + k - 1))]

\* if marker is not None: yield marker + newline
MarkerChunks(marker, newline) ==
    IF marker.some THEN <<Chunk("marker", marker.val \o newline)>> ELSE << >>

\* The newline sniff at the head of merge_lines.
sniff_newline(a) ==
    IF Len(a) > 0
    THEN IF EndsWith(a[1], <<CR, NL>>) THEN <<CR, NL>>
         ELSE IF EndsWith(a[1], <<CR>>) THEN <<CR>>
         ELSE <<NL>>
    ELSE <<NL>>

\* if name and marker: marker = marker + b" " + name
with_label(marker, name) ==
    IF Truthy(name) /\ Truthy(marker)
    THEN Some(marker.val \o <<" ">> \o name.val)
    ELSE marker

StartMarker == <<"<", "<", "<", "<", "<", "<", "<">>
MidMarker == <<"=", "=", "=", "=", "=", "=", "=">>
EndMarker == <<">", ">", ">", ">", ">", ">", ">">>
BaseMarker == <<"|", "|", "|", "|", "|", "|", "|">>

\* The keyword arguments of merge_lines when the caller gives none.
default_args ==
    [name_a |-> None, name_b |-> None, name_base |-> None,
     start_marker |-> Some(StartMarker), mid_marker |-> Some(MidMarker),
     end_marker |-> Some(EndMarker), base_marker |-> None,
     localorother |-> "none", minimize |-> FALSE]

\* The locals merge_lines computes before its loop.
render_env(args, a) ==
    [newline |-> sniff_newline(a),
     start_marker |-> with_label(args.start_marker, args.name_a),
     mid_marker |-> args.mid_marker,
     end_marker |-> with_label(args.end_marker, args.name_b),
     base_marker |-> with_label(args.base_marker, args.name_base),
     localorother |-> args.localorother]

\* conflict_chunks yielding the base tokens whether or not base_marker is set.
conflict_chunks_base_always(env, base, a, b, t) ==
    MarkerChunks(env.start_marker, env.newline)
    \o TokenChunks("a", a, t[4], t[5])
    \o MarkerChunks(env.base_marker, env.newline)
    \o TokenChunks("base", base, t[2], t[3])
    \o MarkerChunks(env.mid_marker, env.newline)
    \o TokenChunks("b", b, t[6], t[7])
    \o MarkerChunks(env.end_marker, env.newline)

\* The marker block of merge_lines for conflict region t.
conflict_chunks(env, base, a, b, t) ==
    MarkerChunks(env.start_marker, env.newline)
    \o TokenChunks("a", a, t[4], t[5])
    \o (IF env.base_marker.some
        THEN MarkerChunks(env.base_marker, env.newline)
             \o TokenChunks("base", base, t[2], t[3])
        ELSE << >>)
    \o MarkerChunks(env.mid_marker, env.newline)
    \o TokenChunks("b", b, t[6], t[7])
    \o MarkerChunks(env.end_marker, env.newline)

\* if text: the word-merge result replaces the conflict.
word_merge_accepted(text) == Truthy(text)

\* conflict_path looking at the word-merge mode before the forced side.
conflict_path_mode_first(localorother, wm, text) ==
    IF wm = "enforced" THEN "raise"
    ELSE IF wm = "ondemand" /\ word_merge_accepted(text) THEN "wordmerge"
    ELSE IF localorother = "local" THEN "local"
    ELSE IF localorother = "other" THEN "other"
    ELSE "markers"

\* conflict_path drawing markers in enforced mode instead of raising.
conflict_path_enforced_markers(localorother, wm, text) ==
    IF localorother = "local" THEN "local"
    ELSE IF localorother = "other" THEN "other"
    ELSE IF wm = "ondemand" /\ word_merge_accepted(text) THEN "wordmerge"
    ELSE "markers"

\* The branch merge_lines takes for a conflict region.
conflict_path(localorother, wm, text) ==
    IF localorother = "local" THEN "local"
    ELSE IF localorother = "other" THEN "other"
    ELSE IF wm = "enforced" THEN "raise"
    ELSE IF wm = "ondemand" /\ word_merge_accepted(text) THEN "wordmerge"
    ELSE "markers"

\* One iteration of the for loop of merge_lines on region t.  text is what
\* trywordmerge returned for the region (None when it was not called or
\* failed).  Gives the chunks yielded, how the region was rendered, whether
\* self.conflicts was set, the increment of self.conflictscount, and the
\* exception raised ("" for none).
render_region(env, wm, base, a, b, t, text) ==
    LET what == t[1]
        path == conflict_path(env.localorother, wm, text)
        plain(how, chunks) ==
            [chunks |-> chunks, how |-> how, conflict |-> FALSE, bump |-> 0, err |-> ""]
    IN IF what = "unchanged" THEN plain("unchanged", TokenChunks("base", base, t[2], t[3]))
       ELSE IF what = "a" \/ what = "same" THEN plain(what, TokenChunks("a", a, t[2], t[3]))
       ELSE IF what = "b" THEN plain("b", TokenChunks("b", b, t[2], t[3]))
       ELSE IF what = "conflict"
       THEN IF path = "local"
            THEN plain("local", TokenChunks("a", a, t[4], t[5]))
            ELSE IF path = "other"
            THEN plain("other", TokenChunks("b", b, t[6], t[7]))
            ELSE IF path = "raise"
            THEN [chunks |-> << >>, how |-> "raise", conflict |-> TRUE, bump |-> 0,
                  err |-> "CantShowWordConflicts"]
            ELSE IF path = "wordmerge"
            THEN LET lines == SplitNewlines(text.val)
                 IN plain("wordmerge", [k \in 1..Len(lines) |-> Chunk("word", lines[k])])
            ELSE [chunks |-> conflict_chunks(env, base, a, b, t), how |-> "markers",
                  conflict |-> TRUE, bump |-> 1, err |-> ""]
       ELSE [chunks |-> << >>, how |-> "raise", conflict |-> FALSE, bump |-> 0,
             err |-> "ValueError"]

\* The group merge_groups yields for region t.
group_of(base, a, b, t) ==
    IF t[1] = "unchanged" THEN TokenChunks("base", base, t[2], t[3])
    ELSE IF t[1] = "a" \/ t[1] = "same" THEN TokenChunks("a", a, t[2], t[3])
    ELSE IF t[1] = "b" THEN TokenChunks("b", b, t[2], t[3])
    ELSE TokenChunks("base", base, t[2], t[3])
         \o TokenChunks("a", a, t[4], t[5])
         \o TokenChunks("b", b, t[6], t[7])

\* The bytes of a sequence of chunks.
ChunkBytes(chunks) == Join([k \in 1..Len(chunks) |-> chunks[k].data])

\* ----------------------------------------------------- word-merge fallback

RECURSIVE plain_lines(_, _, _, _, _, _, _)
\* The for loop of merge_lines over regions[k..] in a mode wm that does not
\* call trywordmerge: [chunks, err].
plain_lines(env, wm, base, a, b, regions, k) ==
    IF k > Len(regions) THEN [chunks |-> << >>, err |-> ""]
    ELSE LET r == render_region(env, wm, base, a, b, regions[k], None)
             rest == plain_lines(env, wm, base, a, b, regions, k + 1)
         IN IF r.err # "" THEN [chunks |-> << >>, err |-> r.err]
            ELSE [chunks |-> r.chunks \o rest.chunks, err |-> rest.err]

\* The buffers the inner Merge3Text of trywordmerge hands to the matcher.
word_matcher_text(text) == concat(splitwordswithoutemptylines(text))

\* trywordmerge with the matcher's answers amatches, bmatches for the inner
\* merge: Some(resolved text), None when the merge failed; err carries any
\* exception other than CantShowWordConflicts.
trywordmerge(basetext, atext, btext, amatches, bmatches) ==
    LET base == Split("enforced", basetext)
        a == Split("enforced", atext)
        b == Split("enforced", btext)
        mr == merge_regions(base, a, b, amatches, bmatches)
        res == plain_lines(render_env(default_args, a), "enforced", base, a, b,
                           mr.regions, 1)
        err == IF res.err # "" THEN res.err ELSE mr.err
    IN IF err = "CantShowWordConflicts" THEN [text |-> None, err |-> ""]
       ELSE IF err # "" THEN [text |-> None, err |-> err]
       ELSE [text |-> Some(ChunkBytes(res.chunks)), err |-> ""]

\* The three substrings merge_lines joins for conflict region t.
subtexts(base, a, b, t) ==
    [base |-> Join(Slice(base, t[2], t[3])),
     a |-> Join(Slice(a, t[4], t[5])),
     b |-> Join(Slice(b, t[6], t[7]))]

\* Whether merge_lines calls trywordmerge for region t.
calls_wordmerge(args, wm, t) ==
    t[1] = "conflict" /\ args.localorother = "none" /\ wm = "ondemand"

\* ----------------------------------------------------------- state machine

VARIABLES
    pc,             \* where the merge stands
    entry,          \* the method called: merge_lines or merge_groups
    basetext,       \* Merge3Text.basetext
    atext,          \* Merge3Text.atext
    btext,          \* Merge3Text.btext
    wordmerge,      \* Merge3Text.wordmerge
    base,           \* Merge3Text.base
    a,              \* Merge3Text.a
    b,              \* Merge3Text.b
    args,           \* the keyword arguments of the merge_lines call
    amatches,       \* find_sync_regions: matching blocks of (base, a)
    bmatches,       \* find_sync_regions: matching blocks of (base, b)
    sync_ia,        \* find_sync_regions: cursor ia into amatches
    sync_ib,        \* find_sync_regions: cursor ib into bmatches
    sl,             \* find_sync_regions: the sync regions found
    k,              \* position of the running loop in the list it walks
    iz,             \* merge_regions: base[0:iz] has been disposed of
    ia,             \* merge_regions: a[0:ia] has been disposed of
    ib,             \* merge_regions: b[0:ib] has been disposed of
    regions,        \* the tagged regions merge_regions has yielded
    minimized,      \* the tagged regions reaching the renderer
    out,            \* per rendered region: the region, how, the chunks yielded
    conflicts,      \* Merge3Text.conflicts
    conflictscount, \* Merge3Text.conflictscount
    err             \* the exception that ended the merge, "" for none

vars == <<pc, entry, basetext, atext, btext, wordmerge, base, a, b, args, amatches,
          bmatches, sync_ia, sync_ib, sl, k, iz, ia, ib, regions, minimized,
          out, conflicts, conflictscount, err>>

inputs == <<basetext, atext, btext, wordmerge, base, a, b>>
finder == <<amatches, bmatches, sync_ia, sync_ib, sl>>
classifier == <<iz, ia, ib, regions>>
rendering == <<out, conflicts, conflictscount>>

\* The lines input buffers are made of.
Lines == {<<"p", " ", "q", NL>>, <<"q", " ", "q", NL>>}

Modes == {"disabled", "ondemand", "enforced"}

\* Buffers of exactly n lines.
TextsOfLines(n) == {Join(ls) : ls \in [1..n -> Lines]}

OptMarker(m) == {None, Some(m)}

Label == <<"l">>

\* The markers and labels drawn: every marker independently present or
\* absent without labels, and all four present with all three labels.
MarkerArgs ==
    [name_a : {None}, name_b : {None}, name_base : {None},
     start_marker : OptMarker(StartMarker), mid_marker : OptMarker(MidMarker),
     end_marker : OptMarker(EndMarker), base_marker : OptMarker(BaseMarker)]
    \cup
    {[name_a |-> Some(Label), name_b |-> Some(Label), name_base |-> Some(Label),
      start_marker |-> Some(StartMarker), mid_marker |-> Some(MidMarker),
      end_marker |-> Some(EndMarker), base_marker |-> Some(BaseMarker)]}

DefaultMarkerArgs ==
    [name_a |-> None, name_b |-> None, name_base |-> None,
     start_marker |-> Some(StartMarker), mid_marker |-> Some(MidMarker),
     end_marker |-> Some(EndMarker), base_marker |-> None]

CallArgs(m, lo, mini) ==
    [name_a |-> m.name_a, name_b |-> m.name_b, name_base |-> m.name_base,
     start_marker |-> m.start_marker, mid_marker |-> m.mid_marker,
     end_marker |-> m.end_marker, base_marker |-> m.base_marker,
     localorother |-> lo, minimize |-> mini]

\* The merge_lines calls drawn for a word-merge mode.  merge_lines reads its
\* markers only on the path that draws a conflict (no forced side, mode not
\* enforced); the calls that cannot take that path are drawn with the default
\* markers alone.
Configs(wm) ==
    {CallArgs(m, lo, mini) :
        m \in MarkerArgs, lo \in {"none", "local", "other"}, mini \in BOOLEAN}
    \ {c \in [name_a : {None, Some(Label)}, name_b : {None, Some(Label)},
              name_base : {None, Some(Label)},
              start_marker : OptMarker(StartMarker), mid_marker : OptMarker(MidMarker),
              end_marker : OptMarker(EndMarker), base_marker : OptMarker(BaseMarker),
              localorother : {"none", "local", "other"}, minimize : BOOLEAN] :
          /\ c.localorother # "none" \/ wm = "enforced"
          /\ CallArgs(DefaultMarkerArgs, c.localorother, c.minimize) # c}

\* Merge3Text.__init__ on drawn buffers and a drawn word-merge mode.
Constructed ==
    /\ \E nz, na, nb \in 0..MaxTotalLines :
          /\ nz + na + nb <= MaxTotalLines
          /\ basetext \in TextsOfLines(nz)
          /\ atext \in TextsOfLines(na)
          /\ btext \in TextsOfLines(nb)
    /\ wordmerge \in Modes
    /\ base = Split(wordmerge, basetext)
    /\ a = Split(wordmerge, atext)
    /\ b = Split(wordmerge, btext)

Idle ==
    /\ entry = "none"
    /\ args = default_args
    /\ amatches = << >>
    /\ bmatches = << >>
    /\ sync_ia = 0
    /\ sync_ib = 0
    /\ sl = << >>
    /\ k = 0
    /\ iz = 0
    /\ ia = 0
    /\ ib = 0
    /\ regions = << >>
    /\ minimized = << >>
    /\ out = << >>
    /\ conflicts = FALSE
    /\ conflictscount = 0
    /\ err = ""

Init ==
    /\ pc = "new"
    /\ Constructed
    /\ Idle

\* merge_lines is called: the head of the generator, up to merge_regions().
MergeLines ==
    /\ pc = "new"
    /\ entry' = "merge_lines"
    /\ args' \in Configs(wordmerge)
    /\ conflicts' = FALSE
    /\ conflictscount' = 0
    /\ pc' = "match"
    /\ UNCHANGED <<inputs, finder, k, classifier, minimized, out, err>>

\* The matcher answers twice; equal arguments get equal answers.
matcher_answers(text, text_a, text_b) ==
    {m \in get_matching_blocks(text, text_a) \X get_matching_blocks(text, text_b) :
        text_a = text_b => m[1] = m[2]}

\* find_sync_regions up to its loop: the two get_matching_blocks calls.
Match ==
    /\ pc = "match"
    /\ \E m \in matcher_answers(matcher_text(wordmerge, basetext, base),
                                matcher_text(wordmerge, atext, a),
                                matcher_text(wordmerge, btext, b)) :
          /\ amatches' = m[1]
          /\ bmatches' = m[2]
    /\ sync_ia' = 0
    /\ sync_ib' = 0
    /\ sl' = << >>
    /\ pc' = "sync"
    /\ UNCHANGED <<entry, inputs, args, k, classifier, minimized, rendering, err>>

Fail(e) ==
    /\ pc' = "raised"
    /\ err' = e

\* One iteration of the while loop of find_sync_regions.
FindSyncStep ==
    /\ pc = "sync"
    /\ sync_ia < Len(amatches)
    /\ sync_ib < Len(bmatches)
    /\ \E st \in {find_sync_body(base, a, b, amatches, bmatches,
                                [ia |-> sync_ia, ib |-> sync_ib, sl |-> sl, err |-> ""])} :
          /\ sync_ia' = st.ia
          /\ sync_ib' = st.ib
          /\ sl' = st.sl
          /\ IF st.err # "" THEN Fail(st.err) ELSE UNCHANGED <<pc, err>>
    /\ UNCHANGED <<entry, inputs, args, amatches, bmatches, k, classifier, minimized,
                   rendering>>

\* The loop of find_sync_regions ends: the final sync region is appended and
\* merge_regions starts to walk the list.
FindSyncEnd ==
    /\ pc = "sync"
    /\ ~(sync_ia < Len(amatches) /\ sync_ib < Len(bmatches))
    /\ sl' = Append(sl, final_sync(base, a, b))
    /\ k' = 1
    /\ iz' = 0
    /\ ia' = 0
    /\ ib' = 0
    /\ regions' = << >>
    /\ pc' = "classify"
    /\ UNCHANGED <<entry, inputs, args, amatches, bmatches, sync_ia, sync_ib,
                   minimized, rendering, err>>

\* Where merge_lines goes once merge_regions is exhausted.
after_classify(rs) ==
    IF rs = << >> THEN "done"
    ELSE IF entry = "merge_groups" THEN "groups"
    ELSE IF args.minimize THEN "minimize" ELSE "render"

\* One iteration of the for loop of merge_regions, on sync region sl[k].
ClassifyStep ==
    /\ pc = "classify"
    /\ k <= Len(sl)
    /\ LET st == merge_regions_body(base, a, b, sl[k],
                     [iz |-> iz, ia |-> ia, ib |-> ib, regions |-> regions, err |-> ""])
           last == k = Len(sl)
       IN /\ iz' = st.iz
          /\ ia' = st.ia
          /\ ib' = st.ib
          /\ regions' = st.regions
          /\ IF st.err # "" THEN /\ Fail(st.err)
                                 /\ UNCHANGED <<k, minimized>>
             ELSE /\ err' = err
                  /\ k' = IF last THEN 1 ELSE k + 1
                  /\ pc' = IF last THEN after_classify(st.regions) ELSE pc
                  /\ minimized' = IF last /\ ~args.minimize THEN st.regions ELSE << >>
    /\ UNCHANGED <<entry, inputs, args, finder, rendering>>

\* One iteration of the for loop of minimize, on regions[k].
MinimizeStep ==
    /\ pc = "minimize"
    /\ k <= Len(regions)
    /\ minimized' = minimized \o minimize_region(a, b, regions[k])
    /\ k' = IF k = Len(regions) THEN 1 ELSE k + 1
    /\ pc' = IF k = Len(regions) THEN "render" ELSE pc
    /\ UNCHANGED <<entry, inputs, args, finder, classifier, rendering, err>>

\* What trywordmerge may return for region t: one result per pair of answers
\* of the matcher to the inner merge.
wordmerge_results(t) ==
    LET sub == subtexts(base, a, b, t)
    IN {trywordmerge(sub.base, sub.a, sub.b, m[1], m[2]) :
          m \in matcher_answers(word_matcher_text(sub.base),
                                word_matcher_text(sub.a),
                                word_matcher_text(sub.b))}

\* One iteration of the for loop of merge_lines, on region minimized[k].
RenderStep ==
    /\ pc = "render"
    /\ k <= Len(minimized)
    /\ LET t == minimized[k]
           env == render_env(args, a)
           last == k = Len(minimized)
       IN \E w \in IF calls_wordmerge(args, wordmerge, t)
                   THEN wordmerge_results(t)
                   ELSE {[text |-> None, err |-> ""]} :
             LET r == render_region(env, wordmerge, base, a, b, t, w.text)
                 e == IF w.err # "" THEN w.err ELSE r.err
             IN /\ conflicts' = (conflicts \/ (w.err = "" /\ r.conflict))
                /\ conflictscount' = conflictscount + (IF e = "" THEN r.bump ELSE 0)
                /\ IF e # ""
                   THEN /\ Fail(e)
                        /\ UNCHANGED <<k, out>>
                   ELSE /\ out' = Append(out, [t |-> t, how |-> r.how, text |-> w.text,
                                               chunks |-> r.chunks])
                        /\ k' = k + 1
                        /\ pc' = IF last THEN "done" ELSE pc
                        /\ err' = err
    /\ UNCHANGED <<entry, inputs, args, finder, classifier, minimized>>

Next ==
    \/ MergeLines
    \/ Match
    \/ FindSyncStep
    \/ FindSyncEnd
    \/ ClassifyStep
    \/ MinimizeStep
    \/ RenderStep

Spec == Init /\ [][Next]_vars

\* The chunks merge_lines has yielded, and their bytes.
Yielded == LET F[n \in 0..Len(out)] ==
                   IF n = 0 THEN << >> ELSE F[n - 1] \o out[n].chunks
           IN F[Len(out)]

MergedText == ChunkBytes(Yielded)

\* --------------------------------------- merge_groups under any matcher

\* merge_groups is called: it walks merge_regions().
MergeGroups ==
    /\ pc = "new"
    /\ entry' = "merge_groups"
    /\ pc' = "match"
    /\ UNCHANGED <<inputs, args, finder, k, classifier, minimized, rendering, err>>

\* The two get_matching_blocks calls, answered by any matcher the contract
\* allows.
MatchAny ==
    /\ pc = "match"
    /\ amatches' \in any_matching_blocks(matcher_text(wordmerge, basetext, base),
                                         matcher_text(wordmerge, atext, a))
    /\ bmatches' \in any_matching_blocks(matcher_text(wordmerge, basetext, base),
                                         matcher_text(wordmerge, btext, b))
    /\ sync_ia' = 0
    /\ sync_ib' = 0
    /\ sl' = << >>
    /\ pc' = "sync"
    /\ UNCHANGED <<entry, inputs, args, k, classifier, minimized, rendering, err>>

\* One iteration of the for loop of merge_groups, on region regions[k].
GroupStep ==
    /\ pc = "groups"
    /\ k <= Len(regions)
    /\ out' = Append(out, [t |-> regions[k], how |-> regions[k][1], text |-> None,
                           chunks |-> group_of(base, a, b, regions[k])])
    /\ k' = k + 1
    /\ pc' = IF k = Len(regions) THEN "done" ELSE pc
    /\ UNCHANGED <<entry, inputs, args, finder, classifier, minimized, conflicts,
                   conflictscount, err>>

NextGroups ==
    \/ MergeGroups
    \/ MatchAny
    \/ FindSyncStep
    \/ FindSyncEnd
    \/ ClassifyStep
    \/ GroupStep

SpecGroups == Init /\ [][NextGroups]_vars

\* ------------------------------------ find_sync_regions up to its return

\* merge_groups up to the return of find_sync_regions, on buffers of at most
\* MaxSyncLines lines together.  The while loop is sequential code: an
\* iteration that can run does run, and so does the code after the loop.
InitSync ==
    /\ Init
    /\ Len(SplitNewlines(basetext)) + Len(SplitNewlines(atext))
         + Len(SplitNewlines(btext)) <= MaxSyncLines

NextSync ==
    \/ MergeGroups
    \/ MatchAny
    \/ FindSyncStep
    \/ FindSyncEnd

SpecSync ==
    /\ InitSync
    /\ [][NextSync]_vars
    /\ WF_vars(FindSyncStep)
    /\ WF_vars(FindSyncEnd)

\* ------------------------------------------------------- tokenizer alone

BufferChars == {"p", " ", NL}

\* Every buffer of at most MaxBufLen bytes.
Buffers == UNION {[1..n -> BufferChars] : n \in 0..MaxBufLen}

InitTokens ==
    /\ pc = "buffers"
    /\ basetext \in Buffers
    /\ atext = << >>
    /\ btext = << >>
    /\ wordmerge = "enforced"
    /\ base = << >>
    /\ a = << >>
    /\ b = << >>
    /\ Idle

\* Merge3Text.__init__ in enforced mode: the three buffers are tokenized.
Construct ==
    /\ pc = "buffers"
    /\ base' = Split(wordmerge, basetext)
    /\ a' = Split(wordmerge, atext)
    /\ b' = Split(wordmerge, btext)
    /\ pc' = "new"
    /\ UNCHANGED <<entry, basetext, atext, btext, wordmerge, args, finder, k,
                   classifier, minimized, rendering, err>>

NextTokens == Construct

SpecTokens == InitTokens /\ [][NextTokens]_vars

\* ------------------------------------------------------------ properties

\* C1: when a == base, merge_lines never raises and never counts a conflict,
\* and the bytes it has produced on completion are b, byte for byte.
C1_UnchangedLocalYieldsOther ==
    (entry = "merge_lines" /\ atext = basetext) =>
        /\ err = ""
        /\ conflictscount = 0
        /\ (pc = "done" => MergedText = btext)

C1_Witness ==
    /\ pc = "done"
    /\ entry = "merge_lines"
    /\ atext = basetext
    /\ btext # basetext
    /\ Len(out) >= 2
    /\ wordmerge = "ondemand"
    /\ MergedText = btext

\* C2: when b == base, merge_lines never raises and never counts a conflict,
\* and the bytes it has produced on completion are a, byte for byte.
C2_UnchangedOtherYieldsLocal ==
    (entry = "merge_lines" /\ btext = basetext) =>
        /\ err = ""
        /\ conflictscount = 0
        /\ (pc = "done" => MergedText = atext)

C2_Witness ==
    /\ pc = "done"
    /\ entry = "merge_lines"
    /\ btext = basetext
    /\ atext # basetext
    /\ Len(out) >= 2
    /\ \E i \in 1..Len(sl) : sl[i][2] > sl[i][1]
    /\ MergedText = atext

\* C3: when a == b, no gap is classified conflict, merge_lines never raises
\* and never counts a conflict, and the bytes produced on completion are a.
C3_IdenticalSidesYieldThatSide ==
    (entry = "merge_lines" /\ atext = btext) =>
        /\ err = ""
        /\ conflictscount = 0
        /\ \A i \in 1..Len(regions) : regions[i][1] \in {"same", "unchanged"}
        /\ (pc = "done" => MergedText = atext)

C3_Witness ==
    /\ pc = "done"
    /\ entry = "merge_lines"
    /\ atext = btext
    /\ atext # basetext
    /\ \E i \in 1..Len(regions) : regions[i][1] = "same"
    /\ \E i \in 1..Len(regions) : regions[i][1] = "unchanged"
    /\ MergedText = atext

\* The regions rendered so far are the head of the stream reaching the
\* renderer.
RenderedInOrder ==
    /\ Len(out) <= Len(minimized)
    /\ \A i \in 1..Len(out) : out[i].t = minimized[i]
    /\ pc = "done" => Len(out) = Len(minimized)

HasMarker(chunks) == \E j \in 1..Len(chunks) : chunks[j].kind = "marker"

ChunkData(chunks) == [j \in 1..Len(chunks) |-> chunks[j].data]

\* C4: in ondemand mode without a forced side, a conflict region for which
\* trywordmerge returned bytes (empty or not) is rendered as exactly those
\* bytes, with no marker line and no count; markers and the count are for the
\* regions for which it returned None.
C4_WordMergeResultReplacesConflict ==
    (entry = "merge_lines" /\ wordmerge = "ondemand" /\ args.localorother = "none") =>
        /\ \A i \in 1..Len(out) :
              (out[i].t[1] = "conflict" /\ out[i].text.some) =>
                  /\ ChunkBytes(out[i].chunks) = out[i].text.val
                  /\ ~HasMarker(out[i].chunks)
        /\ conflictscount =
              Cardinality({i \in 1..Len(out) :
                              out[i].t[1] = "conflict" /\ ~out[i].text.some})

\* C5: with a forced side every conflict region contributes exactly the
\* tokens of that side, no marker line is yielded, nothing is raised,
\* conflictscount stays 0 and conflicts stays false, in every word-merge mode.
C5_ForcedSideNeverConflicts ==
    (entry = "merge_lines" /\ args.localorother \in {"local", "other"}) =>
        /\ err = ""
        /\ conflictscount = 0
        /\ ~conflicts
        /\ RenderedInOrder
        /\ \A i \in 1..Len(out) :
              /\ ~HasMarker(out[i].chunks)
              /\ out[i].t[1] = "conflict" =>
                    ChunkData(out[i].chunks) =
                        IF args.localorother = "local"
                        THEN Slice(a, out[i].t[4], out[i].t[5])
                        ELSE Slice(b, out[i].t[6], out[i].t[7])

C5_Witness ==
    /\ pc = "done"
    /\ entry = "merge_lines"
    /\ args.localorother = "other"
    /\ wordmerge = "enforced"
    /\ \E i \in 1..Len(out) : out[i].t[1] = "conflict" /\ out[i].chunks # << >>
    /\ Len(out) >= 2

\* The marker line of an optional marker, as a list of chunks.
C6_MarkerLine(marker, label, newline) ==
    IF ~marker.some THEN << >>
    ELSE IF label.some /\ marker.val # << >>
    THEN <<Chunk("marker", marker.val \o <<" ">> \o label.val \o newline)>>
    ELSE <<Chunk("marker", marker.val \o newline)>>

C6_Tokens(kind, tokens, lo, hi) ==
    [j \in 1..(hi - lo) |-> Chunk(kind, tokens[lo + j])]

\* What a region drawn as a conflict is to yield.
C6_Drawn(t) ==
    LET newline == <<NL>>
    IN C6_MarkerLine(args.start_marker, args.name_a, newline)
       \o C6_Tokens("a", a, t[4], t[5])
       \o (IF args.base_marker.some
           THEN C6_MarkerLine(args.base_marker, args.name_base, newline)
                \o C6_Tokens("base", base, t[2], t[3])
           ELSE << >>)
       \o C6_MarkerLine(args.mid_marker, None, newline)
       \o C6_Tokens("b", b, t[6], t[7])
       \o C6_MarkerLine(args.end_marker, args.name_b, newline)

\* C6: without a forced side, in mode disabled or ondemand, conflictscount is
\* the number of conflict regions of the stream reaching the renderer that
\* were not replaced by a word-merge result, and each of them yields start
\* marker line, a[a1:a2], base marker line and base[z1:z2] (if base_marker is
\* set), mid marker line, b[b1:b2], end marker line, a marker line being
\* left out when its marker is None.
C6_CountIsDrawnConflicts ==
    (entry = "merge_lines" /\ args.localorother = "none"
        /\ wordmerge \in {"disabled", "ondemand"}) =>
        /\ err = ""
        /\ RenderedInOrder
        /\ conflictscount =
              Cardinality({i \in 1..Len(out) :
                              out[i].t[1] = "conflict" /\ out[i].how # "wordmerge"})
        /\ \A i \in 1..Len(out) :
              (out[i].t[1] = "conflict" /\ out[i].how # "wordmerge") =>
                  out[i].chunks = C6_Drawn(out[i].t)

C6_Witness ==
    /\ pc = "done"
    /\ entry = "merge_lines"
    /\ args.localorother = "none"
    /\ wordmerge = "ondemand"
    /\ args.base_marker.some
    /\ ~args.mid_marker.some
    /\ args.start_marker.some
    /\ conflictscount = 1
    /\ Len(out) >= 2
    /\ \E i \in 1..Len(out) :
          /\ out[i].how = "markers"
          /\ out[i].t[3] > out[i].t[2]
          /\ out[i].t[5] > out[i].t[4]

\* C7: the tokens of splitwordswithoutemptylines never include a token that
\* is exactly "\n", and their concatenation is that of the words.
C7_NoNewlineToken ==
    pc = "new" =>
        /\ \A i \in 1..Len(base) : base[i] # <<NL>>
        /\ Join(base) = Join(SplitWords(basetext))

NonMarkerTokens(chunks) ==
    {chunks[j].data : j \in {i \in 1..Len(chunks) : chunks[i].kind # "marker"}}

\* C8: with word merge disabled and no forced side, the set of non-marker
\* tokens yielded is the same with minimize as without it.
C8_MinimizeKeepsTokens ==
    (pc = "done" /\ entry = "merge_lines" /\ wordmerge = "disabled"
        /\ args.localorother = "none") =>
        LET other == IF args.minimize THEN regions ELSE minimize(a, b, regions)
            run == plain_lines(render_env(args, a), "disabled", base, a, b, other, 1)
        IN /\ run.err = ""
           /\ NonMarkerTokens(Yielded) = NonMarkerTokens(run.chunks)

C8_Witness ==
    /\ pc = "done"
    /\ entry = "merge_lines"
    /\ wordmerge = "disabled"
    /\ args.localorother = "none"
    /\ args.minimize
    /\ minimized # regions
    /\ Len(minimized) = Len(regions) + 2

\* C9: every sync region found has three ranges of one length holding equal
\* tokens, and no assertion of find_sync_regions fails, whatever lists
\* satisfying the matching-blocks contract the matcher answers.
C9_SyncRegionsAgree ==
    /\ err = ""
    /\ \A i \in 1..Len(sl) :
          LET r == sl[i]
          IN /\ r[2] - r[1] = r[4] - r[3]
             /\ r[2] - r[1] = r[6] - r[5]
             /\ r[2] >= r[1]
             /\ Slice(base, r[1], r[2]) = Slice(a, r[3], r[4])
             /\ Slice(base, r[1], r[2]) = Slice(b, r[5], r[6])

C9_Witness ==
    /\ pc = "classify"
    /\ entry = "merge_groups"
    /\ \E i \in 1..Len(sl), m \in 1..Len(amatches) :
          /\ sl[i][2] > sl[i][1]
          /\ amatches[m][1] < sl[i][1]
          /\ sl[i][1] < amatches[m][1] + amatches[m][3]
          /\ sl[i][3] # sl[i][5]

\* C10: for every gap the classifier never finds equal_a and equal_b without
\* same, never raises, and yields exactly one region: same(ia, am) if the
\* gaps of a and b are equal; else b(ib, bm) if only the gap of a equals that
\* of base; else a(ia, am) if only the gap of b does; else
\* conflict(iz, zm, ia, am, ib, bm).
C10_OneTagPerGap ==
    [][(pc = "classify" /\ k <= Len(sl)) =>
        LET r == sl[k]
            gap == r[3] # ia \/ r[5] # ib
            gap_z == Slice(base, iz, r[1])
            gap_a == Slice(a, ia, r[3])
            gap_b == Slice(b, ib, r[5])
            tag == IF gap_a = gap_b THEN <<"same", ia, r[3]>>
                   ELSE IF gap_a = gap_z THEN <<"b", ib, r[5]>>
                   ELSE IF gap_b = gap_z THEN <<"a", ia, r[3]>>
                   ELSE <<"conflict", iz, r[1], ia, r[3], ib, r[5]>>
            yielded == SubSeq(regions', Len(regions) + 1, Len(regions'))
        IN /\ err' = ""
           /\ ~(/\ compare_range(a, ia, r[3], base, iz, r[1])
                /\ compare_range(b, ib, r[5], base, iz, r[1])
                /\ ~compare_range(a, ia, r[3], b, ib, r[5]))
           /\ yielded = (IF gap THEN <<tag>> ELSE << >>)
                        \o (IF r[2] > r[1] THEN <<<<"unchanged", r[1], r[2]>>>> ELSE << >>)
    ]_vars

C10_Witness ==
    /\ entry = "merge_groups"
    /\ pc = "done"
    /\ \A tag \in {"a", "b", "unchanged"} :
          \E i \in 1..Len(regions) : regions[i][1] = tag

\* The tokens a region that is not a conflict contributes to the merge.
C11_RegionTokens(t, wbase, wa, wb) ==
    IF t[1] = "unchanged" THEN Slice(wbase, t[2], t[3])
    ELSE IF t[1] = "b" THEN Slice(wb, t[2], t[3])
    ELSE Slice(wa, t[2], t[3])

RECURSIVE C11_Tokens(_, _, _, _, _)
C11_Tokens(rs, i, wbase, wa, wb) ==
    IF i > Len(rs) THEN << >>
    ELSE C11_RegionTokens(rs[i], wbase, wa, wb) \o C11_Tokens(rs, i + 1, wbase, wa, wb)

\* What the claim expects of trywordmerge on the substrings of region t, per
\* pair of answers of the matcher: None when the regions of the inner merge
\* over word tokens include a conflict, else the bytes of their tokens.
C11_Expected(t) ==
    LET sub == subtexts(base, a, b, t)
        wbase == splitwordswithoutemptylines(sub.base)
        wa == splitwordswithoutemptylines(sub.a)
        wb == splitwordswithoutemptylines(sub.b)
    IN {LET rs == merge_regions(wbase, wa, wb, m[1], m[2]).regions
        IN IF \E i \in 1..Len(rs) : rs[i][1] = "conflict"
           THEN None
           ELSE Some(Join(C11_Tokens(rs, 1, wbase, wa, wb))) :
          m \in matcher_answers(concat(wbase), concat(wa), concat(wb))}

\* C11: trywordmerge returns None exactly when the inner merge over word
\* tokens has a conflict region and the concatenation of the emitted tokens
\* otherwise; a merge in enforced mode without a forced side raises
\* CantShowWordConflicts at its first conflict region, emits no marker and
\* calls no word merge; in ondemand mode the exception never reaches the
\* caller of merge_lines, a failed word merge of its own adds nothing to
\* conflictscount, and the region is then drawn as a line-level conflict,
\* which counts once.
C11_WordMergeFailsOnlyOnConflict ==
    (entry = "merge_lines" /\ args.localorother = "none") =>
        /\ wordmerge = "ondemand" =>
              /\ err # "CantShowWordConflicts"
              /\ \A i \in 1..Len(out) :
                    /\ out[i].t[1] = "conflict" => out[i].text \in C11_Expected(out[i].t)
                    /\ out[i].t[1] # "conflict" => out[i].text = None
                    /\ (out[i].t[1] = "conflict" /\ ~out[i].text.some) =>
                          out[i].how = "markers"
              /\ conflictscount =
                    Cardinality({i \in 1..Len(out) : out[i].how = "markers"})
        /\ wordmerge = "enforced" =>
              /\ conflictscount = 0
              /\ \A i \in 1..Len(out) :
                    /\ out[i].t[1] # "conflict"
                    /\ out[i].text = None
                    /\ ~HasMarker(out[i].chunks)
                    /\ out[i].how # "wordmerge"
              /\ pc = "done" =>
                    \A i \in 1..Len(minimized) : minimized[i][1] # "conflict"
              /\ err = "CantShowWordConflicts" <=>
                    /\ pc = "raised"
                    /\ Len(out) < Len(minimized)
                    /\ minimized[Len(out) + 1][1] = "conflict"
              /\ (pc = "render" /\ k <= Len(minimized)) => Len(out) = k - 1

\* An ondemand merge has finished in which the word merge of a conflict
\* region failed on a conflict between words and the region was drawn with
\* markers, next to a region drawn plainly.
C11_Witness ==
    /\ entry = "merge_lines"
    /\ wordmerge = "ondemand"
    /\ args.localorother = "none"
    /\ pc = "done"
    /\ conflictscount = 1
    /\ \E i \in 1..Len(out) :
          /\ out[i].t[1] = "conflict"
          /\ ~out[i].text.some
          /\ out[i].how = "markers"
          /\ out[i].t[5] > out[i].t[4]
          /\ out[i].t[7] > out[i].t[6]
    /\ Len(out) >= 2

\* C12: the loop of find_sync_regions ends; each iteration advances exactly
\* one cursor, ia when the a-block ends before the b-block in base and ib
\* otherwise (ties included); the regions found in the loop have a positive
\* length, and the list returned ends with the zero-length region
\* (|base|, |base|, |a|, |a|, |b|, |b|), its only zero-length region.
C12_FinderTerminates ==
    /\ (pc = "sync") ~> (pc # "sync")
    /\ [][(pc = "sync" /\ pc' = "sync") =>
            LET am == At(amatches, sync_ia)
                bm == At(bmatches, sync_ib)
            IN IF am[1] + am[3] < bm[1] + bm[3]
               THEN sync_ia' = sync_ia + 1 /\ sync_ib' = sync_ib
               ELSE sync_ia' = sync_ia /\ sync_ib' = sync_ib + 1]_vars
    /\ [](pc = "sync" => \A i \in 1..Len(sl) : sl[i][2] > sl[i][1])
    /\ [](pc = "classify" =>
            /\ Len(sl) >= 1
            /\ sl[Len(sl)] = <<Len(base), Len(base), Len(a), Len(a), Len(b), Len(b)>>
            /\ \A i \in 1..(Len(sl) - 1) : sl[i][2] > sl[i][1])

\* find_sync_regions has returned after iterations that advanced each of
\* the cursors, with two sync regions before the final one.
C12_Witness ==
    /\ pc = "classify"
    /\ entry = "merge_groups"
    /\ sync_ia >= 1
    /\ sync_ib >= 2
    /\ Len(sl) >= 3

\* C13: merge_regions walks the sync regions in document order and its
\* regions tile a and b.  No assertion of the loop fails; a sync region
\* never starts before a cursor; the gap region, when there is one, spans
\* exactly a[ia:amatch] and b[ib:bmatch] (a side whose range is not named by
\* the tag holds the tokens of the range that is) and without one the two gaps
\* are empty; the unchanged region spans the sync region, whose three
\* ranges hold the same tokens; the cursors then stand at the end of the sync
\* region, and when the walk is over they stand at |base|, |a| and |b|.
C13_RegionsTile ==
    /\ [][(pc = "classify" /\ k <= Len(sl)) =>
            LET r == sl[k]
                n == Len(regions)
                yielded == SubSeq(regions', n + 1, Len(regions'))
                gap == r[3] # ia \/ r[5] # ib
                g == yielded[1]
                u == yielded[Len(yielded)]
            IN /\ err' = ""
               /\ r[1] >= iz /\ r[3] >= ia /\ r[5] >= ib /\ r[2] >= r[1]
               /\ Len(yielded) = (IF gap THEN 1 ELSE 0) + (IF r[2] > r[1] THEN 1 ELSE 0)
               /\ gap =>
                     /\ g[1] \in {"same", "a", "b", "conflict"}
                     /\ g[1] = "same" =>
                           /\ <<g[2], g[3]>> = <<ia, r[3]>>
                           /\ Slice(b, ib, r[5]) = Slice(a, ia, r[3])
                     /\ g[1] = "a" =>
                           /\ <<g[2], g[3]>> = <<ia, r[3]>>
                           /\ Slice(b, ib, r[5]) = Slice(base, iz, r[1])
                     /\ g[1] = "b" =>
                           /\ <<g[2], g[3]>> = <<ib, r[5]>>
                           /\ Slice(a, ia, r[3]) = Slice(base, iz, r[1])
                     /\ g[1] = "conflict" =>
                           g = <<"conflict", iz, r[1], ia, r[3], ib, r[5]>>
               /\ r[2] > r[1] =>
                     /\ u = <<"unchanged", r[1], r[2]>>
                     /\ Slice(base, r[1], r[2]) = Slice(a, r[3], r[4])
                     /\ Slice(base, r[1], r[2]) = Slice(b, r[5], r[6])
               /\ iz' = r[2] /\ ia' = r[4] /\ ib' = r[6]
         ]_vars
    /\ []((pc = "classify" /\ k = 1) => (iz = 0 /\ ia = 0 /\ ib = 0))
    /\ []((entry = "merge_groups" /\ pc \in {"groups", "done"}) =>
             (iz = Len(base) /\ ia = Len(a) /\ ib = Len(b)))

\* merge_groups has walked a stream of three regions or more with a conflict
\* and an unchanged region among them, all of a and b covered.
C13_Witness ==
    /\ entry = "merge_groups"
    /\ pc = "done"
    /\ Len(regions) >= 3
    /\ \E i \in 1..Len(regions) : regions[i][1] = "conflict"
    /\ \E i \in 1..Len(regions) : regions[i][1] = "unchanged"
    /\ ia = Len(a)
    /\ ib = Len(b)

\* C14: for every conflict region given to minimize, what it yields
\* partitions the ranges of the region: a matching prefix of s tokens and a
\* matching suffix of e tokens with s + e <= min(a2 - a1, b2 - b1), yielded
\* as same(a1, a1 + s) when s > 0, conflict(z1, z2, a1 + s, a2 - e, b1 + s,
\* b2 - e), whose ranges may be empty but are not inverted, and
\* same(a2 - e, a2) when e > 0; the two same regions do not overlap, and
\* prefix, interior and suffix together are a[a1:a2], resp. b[b1:b2].
C14_MinimizePartitions ==
    [][(pc = "minimize" /\ k <= Len(regions) /\ regions[k][1] = "conflict") =>
          LET t == regions[k]
              z1 == t[2]
              z2 == t[3]
              a1 == t[4]
              a2 == t[5]
              b1 == t[6]
              b2 == t[7]
              yielded == SubSeq(minimized', Len(minimized) + 1, Len(minimized'))
          IN \E s \in 0..Min(a2 - a1, b2 - b1) :
                \E e \in 0..(Min(a2 - a1, b2 - b1) - s) :
                   /\ yielded =
                         (IF s > 0 THEN <<<<"same", a1, a1 + s>>>> ELSE << >>)
                         \o <<<<"conflict", z1, z2, a1 + s, a2 - e, b1 + s, b2 - e>>>>
                         \o (IF e > 0 THEN <<<<"same", a2 - e, a2>>>> ELSE << >>)
                   /\ a1 + s <= a2 - e
                   /\ b1 + s <= b2 - e
                   /\ Slice(a, a1, a1 + s) = Slice(b, b1, b1 + s)
                   /\ Slice(a, a2 - e, a2) = Slice(b, b2 - e, b2)
                   /\ Slice(a, a1, a1 + s) \o Slice(a, a1 + s, a2 - e)
                         \o Slice(a, a2 - e, a2) = Slice(a, a1, a2)
                   /\ Slice(b, b1, b1 + s) \o Slice(b, b1 + s, b2 - e)
                         \o Slice(b, b2 - e, b2) = Slice(b, b1, b2)
    ]_vars

====
